---- MODULE Spec2Model ----
(***************************************************************************)
(* Model of handler.py: check_stale_branches and slack_request.            *)
(*                                                                         *)
(* Python strings that the code inspects (branch names, ticket ids, ticket *)
(* statuses, the completion-status setting) are sequences of one-character *)
(* strings, so that startswith, re.search, upper and "in" are computed as  *)
(* Python computes them.  An optional value (None, an unbound local, a     *)
(* call that raised) is the empty sequence; a present value v is <<v>>.    *)
(***************************************************************************)
EXTENDS Integers, Sequences, FiniteSets, TLC

\* ------------------------------------------------------------------ bounds
\* number of names in github_repository_names
MaxRepos == 2
\* number of branches that repo.get_branches() yields over the whole run
MaxBranches == 3

\* --------------------------------------------------------- string literals
Lower == <<"a","b","c","d","e","f","g","h","i","j","k","l","m",
           "n","o","p","q","r","s","t","u","v","w","x","y","z">>
Upper == <<"A","B","C","D","E","F","G","H","I","J","K","L","M",
           "N","O","P","Q","R","S","T","U","V","W","X","Y","Z">>
Digits == {"0","1","2","3","4","5","6","7","8","9"}
LowerSet == {Lower[k] : k \in DOMAIN Lower}
Letters == LowerSet \cup {Upper[k] : k \in DOMAIN Upper}

FeaturePrefix == <<"f","e","a","t","u","r","e","/">>
HotfixPrefix == <<"h","o","t","f","i","x","/">>

Resolved == <<"R","e","s","o","l","v","e","d">>
Closed == <<"C","l","o","s","e","d">>
\* the default of line 82: a tuple of two strings
DefaultStatuses == [type |-> "tuple", items |-> <<Resolved, Closed>>, text |-> <<>>]

None == <<>>
Some(v) == <<v>>

\* ------------------------------------------------------- Python primitives
\* str.startswith
startswith(s, p) == Len(s) >= Len(p) /\ SubSeq(s, 1, Len(p)) = p

\* [a-zA-Z] and [0-9]
IsAlpha(c) == c \in Letters
IsDigit(c) == c \in Digits

\* str.upper, one character
UpperChar(c) ==
    IF c \in LowerSet
    THEN Upper[CHOOSE k \in DOMAIN Lower : Lower[k] = c]
    ELSE c

\* str.upper
upper(s) == [k \in DOMAIN s |-> UpperChar(s[k])]

\* "x in s" for two strings: x is a contiguous part of s
SubstringOf(x, s) ==
    \E i \in 0..(Len(s) - Len(x)) : SubSeq(s, i + 1, i + Len(x)) = x

\* "x in c": substring test when c is a str, element test when c is a tuple
py_in(x, c) ==
    IF c.type = "str"
    THEN SubstringOf(x, c.text)
    ELSE \E k \in DOMAIN c.items : c.items[k] = x

\* End of the longest run of characters of class "letter" or "digit" that
\* starts at position i of s (i - 1 when s[i] is not of the class): what a
\* greedy + does when the character after the run must not be of the class.
RunEnd(s, i, class) ==
    LET Ok(c) == IF class = "alpha" THEN IsAlpha(c) ELSE IsDigit(c)
        Ends == {j \in (i - 1)..Len(s) :
                    /\ \A k \in i..j : Ok(s[k])
                    /\ (j = Len(s) \/ ~Ok(s[j + 1]))}
    IN  CHOOSE j \in Ends : TRUE

\* the pattern feature/(?P<ticket>[a-zA-Z]+-[0-9]+).* matches s at position i
MatchAt(s, i) ==
    /\ i + Len(FeaturePrefix) - 1 <= Len(s)
    /\ SubSeq(s, i, i + Len(FeaturePrefix) - 1) = FeaturePrefix
    /\ LET a == RunEnd(s, i + Len(FeaturePrefix), "alpha")
       IN  /\ a >= i + Len(FeaturePrefix)
           /\ a + 1 <= Len(s)
           /\ s[a + 1] = "-"
           /\ RunEnd(s, a + 2, "digit") >= a + 2

\* re.search(r'feature/(?P<ticket>[a-zA-Z]+-[0-9]+).*', s): None, or the
\* ticket group of the leftmost match
re_search(s) ==
    IF \E i \in 1..Len(s) : MatchAt(s, i)
    THEN LET i == CHOOSE i \in 1..Len(s) :
                     MatchAt(s, i) /\ \A j \in 1..(i - 1) : ~MatchAt(s, j)
             a == RunEnd(s, i + Len(FeaturePrefix), "alpha")
             d == RunEnd(s, a + 2, "digit")
         IN  Some(SubSeq(s, i + Len(FeaturePrefix), d))
    ELSE None

\* ------------------------------------------------------------ environment
\* what load_params can return for jira_statuses_for_task_completion: the key
\* absent, the empty string, or a comma-separated list
SsmValues == {None, Some(<<>>), Some(Resolved \o <<",">> \o Closed)}

\* the branches repo.get_branches() can yield; branch.commit.author is None
\* or a user with a login
Branches ==
    { [name |-> FeaturePrefix \o <<"a","b","-","1">>, author |-> Some("al")],
      [name |-> HotfixPrefix \o <<"A","B","-","2">>, author |-> None],
      [name |-> FeaturePrefix \o <<"x">>, author |-> Some("bo")],
      [name |-> <<"m","a","s","t","e","r">>, author |-> Some("al")] }

\* repo.compare: raises GithubException or returns a comparison
NoComparison == [behind_by |-> 0, ahead_by |-> 0, status |-> "identical"]
Comparisons == { [behind_by |-> 0, ahead_by |-> 1, status |-> "ahead"],
                 [behind_by |-> 2, ahead_by |-> 1, status |-> "diverged"] }
CompareResponses ==
    {[kind |-> "raised", value |-> NoComparison]}
        \cup {[kind |-> "ok", value |-> c] : c \in Comparisons}
CompareNotCalled == [kind |-> "none", value |-> NoComparison]

\* auth_jira.issue: raises JIRAError or returns an issue with a status name
StatusNames == { Resolved,
                 <<"O","p","e","n">>,
                 <<"C","l","o","s","e">> }
JiraResponses ==
    {[kind |-> "raised", status |-> <<>>]}
        \cup {[kind |-> "ok", status |-> s] : s \in StatusNames}
JiraNotCalled == [kind |-> "none", status |-> <<>>]

\* requests.post: the status code of the response
StatusCodes == {200, 500}

\* the repository behind a name of github_repository_names
Repos ==
    { [found |-> FALSE, develop |-> FALSE, master |-> FALSE],
      [found |-> TRUE, develop |-> TRUE, master |-> TRUE],
      [found |-> TRUE, develop |-> FALSE, master |-> TRUE],
      [found |-> TRUE, develop |-> FALSE, master |-> FALSE] }

\* ------------------------------------------------------------------ state
VARIABLES
    pc,                 \* position in check_stale_branches
    error,              \* the exception that ended the run, "" if none
    jira_statuses_for_task_completion,
    repo_idx,           \* names of github_repository_names consumed
    repo,               \* the repository of the current name
    main_develop_branch,
    nbranches,          \* branches yielded so far in the run
    branch,             \* loop variable of line 124
    cmp_resp,           \* what repo.compare did in the last iteration
    jira_resp,          \* what auth_jira.issue did in the last iteration
    comparison,         \* local of line 131, None while unbound
    ticket,             \* local of line 141
    issue,              \* local of line 146, None while unbound
    total_stale_branches,
    general_report,
    repo_report,
    author_count,       \* the defaultdict, in insertion order
    count_by_author,    \* the tally of lines 166-168
    posts               \* the requests slack_request has posted

vars == <<pc, error, jira_statuses_for_task_completion,
          repo_idx, repo, main_develop_branch, nbranches, branch, cmp_resp,
          jira_resp, comparison, ticket, issue, total_stale_branches,
          general_report, repo_report, author_count, count_by_author, posts>>

scan == <<repo_idx, repo, main_develop_branch, nbranches, branch, cmp_resp,
          jira_resp, comparison, ticket, issue, total_stale_branches,
          general_report, repo_report, author_count>>

\* --------------------------------------------------------------- helpers
\* lines 79-82
CompletionStatuses(param) ==
    IF param /= None /\ param[1] /= <<>>
    THEN [type |-> "str", items |-> <<>>, text |-> param[1]]
    ELSE DefaultStatuses

\* line 126, negated: the branch is a feature or hotfix branch
IsCandidate(name) ==
    startswith(name, FeaturePrefix) \/ startswith(name, HotfixPrefix)

\* line 136 had it read ahead_by in place of behind_by
UpToDateByAhead(c) == c.ahead_by = 0

\* line 136
UpToDate(c) == c.behind_by = 0

\* line 150
NotCompleted(i, statuses) == ~py_in(i.status, statuses)

\* line 154
AuthorOf(b) == IF b.author /= None THEN b.author[1] ELSE "unknown"

\* line 155 had it been "author_count[author] = 1"
IncAuthorAssign(ac, a) ==
    IF \E k \in DOMAIN ac : ac[k].author = a
    THEN ac
    ELSE Append(ac, [author |-> a, count |-> 1])

\* line 155: author_count[author] += 1 on a defaultdict(int)
IncAuthor(ac, a) ==
    IF \E k \in DOMAIN ac : ac[k].author = a
    THEN [k \in DOMAIN ac |->
            IF ac[k].author = a
            THEN [author |-> a, count |-> ac[k].count + 1]
            ELSE ac[k]]
    ELSE Append(ac, [author |-> a, count |-> 1])

\* lines 156-159: the text added to repo_report for one branch
Entry(b, c, a, t, i) ==
    [branch |-> b.name,
     status |-> c.status,
     author |-> a,
     ticket_status |-> IF t /= None THEN Some(i[1].status) ELSE None]

\* line 167 had the sort put equal counts in reverse order
InsertByCountUnstable(sorted, x) ==
    LET n == Cardinality({k \in DOMAIN sorted : sorted[k].count > x.count})
    IN  SubSeq(sorted, 1, n) \o <<x>> \o SubSeq(sorted, n + 1, Len(sorted))

\* one step of the stable sort of line 167: x goes after every item whose
\* count is at least its own
InsertByCount(sorted, x) ==
    LET n == Cardinality({k \in DOMAIN sorted : sorted[k].count >= x.count})
    IN  SubSeq(sorted, 1, n) \o <<x>> \o SubSeq(sorted, n + 1, Len(sorted))

RECURSIVE SortedByCount(_)
\* line 167: sorted(author_count.items(), key=itemgetter(1), reverse=True)
SortedByCount(items) ==
    IF items = <<>>
    THEN <<>>
    ELSE InsertByCount(SortedByCount(SubSeq(items, 1, Len(items) - 1)),
                       items[Len(items)])

\* line 59 of slack_request: the branch that logs, naming the undefined r
slack_request(status_code) ==
    IF status_code /= 200 THEN "NameError" ELSE ""

\* lines 124-161: the body of the branch loop for branch b, when repo.compare
\* answers cr and auth_jira.issue (if called) answers jr; result is the
\* value of re.search on line 142.  The value names the way the iteration
\* ends and the locals it leaves behind.
Body(b, cr, jr, result) ==
    LET comparison1 == IF cr.kind = "ok" THEN Some(cr.value) ELSE comparison
        ticket1 == IF result /= None THEN upper(result[1]) ELSE None
        issue1 == IF result /= None /\ jr.kind = "ok"
                  THEN Some([key |-> ticket1, status |-> jr.status])
                  ELSE issue
        locals(exit, c, t, i, j) ==
            [exit |-> exit, comparison |-> c, ticket |-> t, issue |-> i,
             cmp_resp |-> IF exit = "ignored" THEN CompareNotCalled ELSE cr,
             jira_resp |-> j]
    IN  IF ~IsCandidate(b.name)
        THEN locals("ignored", comparison, ticket, issue, JiraNotCalled)
        ELSE IF comparison1 = None
        THEN locals("unbound_comparison", comparison, ticket, issue,
                    JiraNotCalled)
        ELSE IF UpToDate(comparison1[1])
        THEN locals("up_to_date", comparison1, ticket, issue, JiraNotCalled)
        ELSE IF result = None
        THEN locals("stale", comparison1, None, issue, JiraNotCalled)
        ELSE IF issue1 = None
        THEN locals("unbound_issue", comparison1, ticket1, issue, jr)
        ELSE IF NotCompleted(issue1[1], jira_statuses_for_task_completion)
        THEN locals("protected", comparison1, ticket1, issue1, jr)
        ELSE locals("stale", comparison1, ticket1, issue1, jr)

\* ---------------------------------------------------------------- actions
Init ==
    /\ pc = "start"
    /\ error = ""
    /\ jira_statuses_for_task_completion = DefaultStatuses
    /\ repo_idx = 0
    /\ repo = [found |-> FALSE, develop |-> FALSE, master |-> FALSE]
    /\ main_develop_branch = ""
    /\ nbranches = 0
    /\ branch = [name |-> <<>>, author |-> None]
    /\ cmp_resp = CompareNotCalled
    /\ jira_resp = JiraNotCalled
    /\ comparison = None
    /\ ticket = None
    /\ issue = None
    /\ total_stale_branches = 0
    /\ general_report = <<>>
    /\ repo_report = <<>>
    /\ author_count = <<>>
    /\ count_by_author = <<>>
    /\ posts = <<>>

\* lines 77-101
Setup ==
    /\ pc = "start"
    /\ \E param \in SsmValues :
        jira_statuses_for_task_completion' = CompletionStatuses(param)
    /\ pc' = "repo_loop"
    /\ UNCHANGED <<error, count_by_author, posts>>
    /\ UNCHANGED scan

\* lines 103-121: the next repository name; get_repo or get_branch('develop')
\* may raise, and both handlers end in continue
NextRepo ==
    /\ pc = "repo_loop"
    /\ repo_idx < MaxRepos
    /\ \E r \in Repos :
        /\ repo' = r
        /\ repo_idx' = repo_idx + 1
        /\ IF ~r.found
           THEN /\ pc' = "repo_loop"
                /\ UNCHANGED <<repo_report, main_develop_branch>>
           ELSE /\ repo_report' = <<>>
                /\ IF r.develop
                   THEN /\ main_develop_branch' = "develop"
                        /\ pc' = "branch_loop"
                   ELSE /\ main_develop_branch' = "master"
                        /\ pc' = "repo_loop"
    /\ UNCHANGED <<error, jira_statuses_for_task_completion,
                   nbranches, branch, cmp_resp, jira_resp, comparison, ticket,
                   issue, total_stale_branches, general_report, author_count,
                   count_by_author, posts>>

\* lines 124-161: one iteration of the branch loop
Iterate(b, cr, jr) ==
    /\ pc = "branch_loop"
    /\ nbranches < MaxBranches
    /\ \E result \in {re_search(b.name)} :
       \E out \in {Body(b, cr, jr, result)}, author \in {AuthorOf(b)} :
            /\ branch' = b
            /\ nbranches' = nbranches + 1
            /\ cmp_resp' = out.cmp_resp
            /\ jira_resp' = out.jira_resp
            /\ comparison' = out.comparison
            /\ ticket' = out.ticket
            /\ issue' = out.issue
            /\ IF out.exit \in {"unbound_comparison", "unbound_issue"}
               THEN pc' = "crashed" /\ error' = "UnboundLocalError"
               ELSE pc' = "branch_loop" /\ error' = error
            /\ IF out.exit = "stale"
               THEN /\ author_count' = IncAuthor(author_count, author)
                    /\ repo_report' =
                          Append(repo_report,
                                 Entry(b, out.comparison[1], author,
                                       out.ticket, out.issue))
                    /\ total_stale_branches' = total_stale_branches + 1
               ELSE UNCHANGED <<author_count, repo_report,
                                total_stale_branches>>
    /\ UNCHANGED <<jira_statuses_for_task_completion, repo_idx,
                   repo, main_develop_branch, general_report, count_by_author,
                   posts>>

\* lines 124-161 for any branch and any answers of the two services
NextBranch ==
    \E b \in Branches, cr \in CompareResponses, jr \in JiraResponses :
        Iterate(b, cr, jr)

\* lines 163-164: the branches of the repository are exhausted
EndRepo ==
    /\ pc = "branch_loop"
    /\ general_report' =
          IF repo_report /= <<>>
          THEN Append(general_report,
                      [repo |-> repo_idx,
                       main_develop_branch |-> main_develop_branch,
                       entries |-> repo_report])
          ELSE general_report
    /\ pc' = "repo_loop"
    /\ UNCHANGED <<error, jira_statuses_for_task_completion,
                   repo_idx, repo, main_develop_branch, nbranches, branch,
                   cmp_resp, jira_resp, comparison, ticket, issue,
                   total_stale_branches, repo_report, author_count,
                   count_by_author, posts>>

\* lines 166-170: the repository names are exhausted
Tally ==
    /\ pc = "repo_loop"
    /\ repo_idx >= 1
    /\ count_by_author' = SortedByCount(author_count)
    /\ pc' = IF total_stale_branches /= 0 THEN "post_overview" ELSE "done"
    /\ UNCHANGED <<error, jira_statuses_for_task_completion,
                   posts>>
    /\ UNCHANGED scan

\* lines 175-179 with slack_request, lines 54-68
PostOverview ==
    /\ pc = "post_overview"
    /\ \E code \in StatusCodes :
        /\ posts' = Append(posts, [data |-> "report_overview",
                                   status_code |-> code])
        /\ error' = slack_request(code)
        /\ pc' = IF slack_request(code) /= "" THEN "crashed"
                 ELSE "post_details"
    /\ UNCHANGED <<jira_statuses_for_task_completion,
                   count_by_author>>
    /\ UNCHANGED scan

\* lines 181-187 with slack_request, lines 54-68
PostDetails ==
    /\ pc = "post_details"
    /\ \E code \in StatusCodes :
        /\ posts' = Append(posts, [data |-> "report_details",
                                   status_code |-> code])
        /\ error' = slack_request(code)
        /\ pc' = IF slack_request(code) /= "" THEN "crashed" ELSE "done"
    /\ UNCHANGED <<jira_statuses_for_task_completion,
                   count_by_author>>
    /\ UNCHANGED scan

Next ==
    \/ Setup
    \/ NextRepo
    \/ NextBranch
    \/ EndRepo
    \/ Tally
    \/ PostOverview
    \/ PostDetails

Spec == Init /\ [][Next]_vars

\* ------------------------------------------------------------ properties
\* a step of the branch loop
BranchStep == nbranches' = nbranches + 1

\* the step leaves the report and every count as they were
NothingReported ==
    /\ total_stale_branches' = total_stale_branches
    /\ author_count' = author_count
    /\ repo_report' = repo_report
    /\ general_report' = general_report

\* the step adds one entry, for the branch of the iteration, and counts it
BranchReported ==
    /\ total_stale_branches' = total_stale_branches + 1
    /\ Len(repo_report') = Len(repo_report) + 1
    /\ repo_report'[Len(repo_report')].branch = branch'.name
    /\ repo_report'[Len(repo_report')].author = AuthorOf(branch')

\* the comparison of the iteration succeeded and reports behind-count > 0
BehindMain(cr) == cr.kind = "ok" /\ cr.value.behind_by > 0

\* a ticket id (letters, hyphen, digits) right after a feature/ or hotfix/
\* prefix
TicketAfterPrefix(name) ==
    \E p \in {FeaturePrefix, HotfixPrefix} :
        /\ startswith(name, p)
        /\ LET a == RunEnd(name, Len(p) + 1, "alpha")
           IN  /\ a >= Len(p) + 1
               /\ a + 1 <= Len(name)
               /\ name[a + 1] = "-"
               /\ RunEnd(name, a + 2, "digit") >= a + 2

\* the items of a comma-separated list
SplitComma(text) ==
    {SubSeq(text, i, j) : <<i, j>> \in
        {ij \in (1..(Len(text) + 1)) \X (0..Len(text)) :
            /\ ij[1] <= ij[2] + 1
            /\ (ij[1] = 1 \/ text[ij[1] - 1] = ",")
            /\ (ij[2] = Len(text) \/ text[ij[2] + 1] = ",")
            /\ \A k \in ij[1]..ij[2] : text[k] /= ","}}

\* the completion-status set of the configuration
CompletionSet ==
    IF jira_statuses_for_task_completion.type = "str"
    THEN SplitComma(jira_statuses_for_task_completion.text)
    ELSE {jira_statuses_for_task_completion.items[k] :
            k \in DOMAIN jira_statuses_for_task_completion.items}

RECURSIVE SumCounts(_)
SumCounts(ac) ==
    IF ac = <<>> THEN 0
    ELSE ac[Len(ac)].count + SumCounts(SubSeq(ac, 1, Len(ac) - 1))

RECURSIVE AllEntries(_)
\* the branch entries of the report body, in order
AllEntries(report) ==
    IF report = <<>> THEN <<>>
    ELSE AllEntries(SubSeq(report, 1, Len(report) - 1))
            \o report[Len(report)].entries

\* C1: a candidate branch that is behind the main branch and whose ticket
\* lookup raises JIRAError is added to the report and counted, whatever was
\* processed before it.
C1_FailedLookupIsReported ==
    [][(BranchStep /\ BehindMain(cmp_resp') /\ jira_resp'.kind = "raised")
        => (pc' = "branch_loop" /\ BranchReported)]_vars

\* C2: a feature/ or hotfix/ branch with a ticket id right after the prefix
\* whose ticket resolves to a status outside the completion-status set adds
\* nothing to the report or the counts, even when it is behind.
C2_OpenTicketProtects ==
    [][\A b \in Branches, cr \in CompareResponses, jr \in JiraResponses :
          (/\ Iterate(b, cr, jr)
           /\ TicketAfterPrefix(b.name)
           /\ BehindMain(cr)
           /\ jr.kind = "ok"
           /\ jr.status \notin CompletionSet)
          => (pc' = "branch_loop" /\ NothingReported)]_vars

\* C3: when repo.compare raises GithubException the run goes on, the branch
\* is skipped at once (no ticket lookup, no entry, no count), for the first
\* candidate branch of the run as for later ones.
C3_CompareFailureSkipsBranch ==
    [][(BranchStep /\ cmp_resp'.kind = "raised")
        => (/\ pc' = "branch_loop"
            /\ jira_resp'.kind = "none"
            /\ NothingReported)]_vars

\* C4: a repository with 'develop' is scanned against 'develop'; one without
\* 'develop' but with 'master' is scanned against 'master'.
C4_MasterFallbackIsScanned ==
    [][(pc = "repo_loop" /\ repo_idx' = repo_idx + 1 /\ repo'.found
            /\ (repo'.develop \/ repo'.master))
        => (/\ pc' = "branch_loop"
            /\ main_develop_branch' =
                  IF repo'.develop THEN "develop" ELSE "master")]_vars

\* C5: a POST answered with a status other than 200 does not end the run
\* with an exception: slack_request returns and the function goes on.
C5_FailedPostDoesNotFailJob ==
    (posts /= <<>> /\ posts[Len(posts)].status_code /= 200)
        => (error = "" /\ pc \in {"post_details", "done"})

\* C6: a branch whose comparison reports behind-count 0 adds no entry and
\* increments no count, whatever its name, ticket or predecessors.
C6_ZeroBehindIsExcluded ==
    [][(BranchStep /\ cmp_resp'.kind = "ok" /\ cmp_resp'.value.behind_by = 0)
        => (pc' = "branch_loop" /\ NothingReported)]_vars

C6_Witness ==
    /\ pc = "branch_loop"
    /\ cmp_resp.kind = "ok"
    /\ cmp_resp.value.behind_by = 0
    /\ re_search(branch.name) /= None
    /\ total_stale_branches > 0

\* C7: after every completed iteration and at the end of the scan, the
\* author counts sum to total_stale_branches, which is the number of branch
\* entries written (those of general_report, and inside the branch loop
\* those of the repository in progress).
C7_CountsAgree ==
    /\ SumCounts(author_count) = total_stale_branches
    /\ pc = "branch_loop" =>
          total_stale_branches =
              Len(AllEntries(general_report)) + Len(repo_report)
    /\ pc \in {"repo_loop", "post_overview", "post_details", "done"} =>
          total_stale_branches = Len(AllEntries(general_report))

C7_Witness ==
    /\ pc = "done"
    /\ total_stale_branches = 3
    /\ Len(general_report) = 2
    /\ \E k \in DOMAIN author_count : author_count[k].count = 2

\* C8: the tally lists each author of a stale branch once with the number
\* of that author's entries, counts descending, equal counts in the order
\* in which the authors' first stale branches were met.
C8_TallyOrder ==
    pc \in {"post_overview", "post_details", "done"} =>
        LET t == count_by_author
            es == AllEntries(general_report)
            First(a) == CHOOSE k \in DOMAIN es :
                            /\ es[k].author = a
                            /\ \A j \in 1..(k - 1) : es[j].author /= a
        IN  /\ {t[k].author : k \in DOMAIN t} = {es[k].author : k \in DOMAIN es}
            /\ \A i, j \in DOMAIN t : t[i].author = t[j].author => i = j
            /\ \A i \in DOMAIN t :
                  t[i].count =
                      Cardinality({k \in DOMAIN es : es[k].author = t[i].author})
            /\ \A i, j \in DOMAIN t :
                  i < j => /\ t[i].count >= t[j].count
                           /\ t[i].count = t[j].count =>
                                 First(t[i].author) < First(t[j].author)

C8_Witness ==
    /\ pc = "done"
    /\ Len(count_by_author) = 2
    /\ count_by_author[1].count > count_by_author[2].count
    /\ count_by_author /= author_count

\* C9: the entry of a branch that was compared and found behind has a
\* ticket-status field exactly when a ticket was extracted from the branch's
\* name and its lookup succeeded, the status shown is the one that lookup
\* returned, and adding the entry does not end the run.
C9_TicketStatusIsOwn ==
    [][(BranchStep /\ BehindMain(cmp_resp')
            /\ Len(repo_report') = Len(repo_report) + 1)
        => LET e == repo_report'[Len(repo_report')]
           IN  /\ pc' = "branch_loop"
               /\ e.ticket_status /= None
                     <=> (ticket' /= None /\ jira_resp'.kind = "ok")
               /\ e.ticket_status /= None
                     => e.ticket_status = Some(jira_resp'.status)]_vars

\* C10: a resolved status counts as completed (the branch is reported)
\* exactly when it equals an item of the configured list, or of the default
\* pair; any other status protects the branch.
C10_ExactMembership ==
    [][(BranchStep /\ jira_resp'.kind = "ok")
        => /\ pc' = "branch_loop"
           /\ jira_resp'.status \in CompletionSet => BranchReported
           /\ jira_resp'.status \notin CompletionSet => NothingReported]_vars

====
